---- MODULE Spec2Model ----
(***************************************************************************)
(* Model of the Corsair Commander Pro hwmon driver (corsair-cpro.c).       *)
(*                                                                         *)
(* Caller threads enter the driver through the hwmon callbacks ccp_read    *)
(* and ccp_write.  Each thread walks through the statements of the         *)
(* callback and of the helpers it calls (get_temp_or_rpm, get_usb_data,    *)
(* set_pwm); pc[t] is the statement thread t executes next.  A call of     *)
(* usb_bulk_msg blocks, so it takes two steps: the call, which hands the   *)
(* buffer to the bulk transport, and the return with the transport's       *)
(* outcome.  Buffers live on a heap shared by all threads; only bytes      *)
(* 0..2 of a buffer are kept, the bytes the driver reads or writes.        *)
(***************************************************************************)
EXTENDS Integers, Sequences, FiniteSets

(* ------------------------------ bounds -------------------------------- *)

\* Number of caller threads.
NumThreads == 2

\* Total number of hwmon callbacks entered in one behaviour.
MaxCalls == 2

Threads == 1..NumThreads

\* Heap blocks kzalloc can hand out: one per callback at most.
BufIds == 1..MaxCalls

(* ------------------------- program constants -------------------------- *)

CTL_GET_TMP == 17
CTL_GET_FAN_RPM == 33
CTL_SET_FAN_FPWM == 35

NumTemp == 4
NumFan == 6

EINVAL == 22
ENOMEM == 12
ENODATA == 61
EIO == 5
\* The error usb_bulk_msg reports when its 1000 ms timeout expires.
ETIMEDOUT == 110

(* ------------------------------ inputs -------------------------------- *)

\* Channels the hwmon core passes in: indices of the registered channels.
TempChanIn == {NumTemp - 1}
FanChanIn == {NumFan - 1}

\* Values written to pwmN (a long parsed from sysfs).
PwmValIn == {-1, 254, 256}

\* Values written to fanN_enable.
EnableValIn == {0, 1, 2}

\* (type, attr) pairs the hwmon core reads.
ReadAttrs ==
    { <<"hwmon_temp", "hwmon_temp_input">>,
      <<"hwmon_fan", "hwmon_fan_input">>,
      <<"hwmon_fan", "hwmon_fan_enable">>,
      <<"hwmon_pwm", "hwmon_pwm_input">> }

\* (type, attr) pairs the hwmon core reads as strings.
StringAttrs == { <<"hwmon_fan", "hwmon_fan_label">> }

\* (type, attr) pairs the hwmon core writes.
WriteAttrs ==
    { <<"hwmon_fan", "hwmon_fan_enable">>,
      <<"hwmon_pwm", "hwmon_pwm_input">> }

ChannelsOf(type) == IF type = "hwmon_temp" THEN TempChanIn ELSE FanChanIn

\* Outcomes of one usb_bulk_msg: 0, or a negative errno.
UsbResults == {0, -ETIMEDOUT}

\* Bytes 0..2 of the frames the device answers with: status, payload.
Replies == { <<0, 1, 25>>, <<1, 0, 25>> }

\* Values the caller's uninitialised "long val" can hold.
UninitVals == {0, 7}

(* ----------------------------- arithmetic ----------------------------- *)

\* C integer division: truncation towards zero (b > 0).
CDiv(a, b) == IF a >= 0 THEN a \div b ELSE -((-a) \div b)

\* val << 8 and val >> 8 on a long (arithmetic shift), no overflow in range.
Shl8(v) == v * 256
Shr8(v) == v \div 256

\* Assignment of an int or long to a u8.
U8(v) == v % 256

\* The conversion of set_pwm, statement by statement.
Convert(v) == Shr8(CDiv(Shl8(v), 255) * 100)

\* ret <= 0 ? ret : -EIO
RetOrEIO(r) == IF r <= 0 THEN r ELSE -EIO

(* ------------------------------- state -------------------------------- *)

VARIABLES
    pc,          \* pc[t]: the statement thread t executes next
    call,        \* call[t]: arguments of the callback t is in
    bufp,        \* bufp[t]: the local "buffer" pointer, 0 when none
    tx,          \* tx[t]: what t's callback did on the bus so far
    sent,        \* sent[t]: the frame t handed to usb_bulk_msg for sending
    lock,        \* ccp->lock: 0 when free, else the holder
    heap,        \* heap[b]: [used, b] for every block
    pwm,         \* ccp->pwm[]
    fan_enable,  \* ccp->fan_enable[]
    lastv,       \* lastv[ch]: the value the last pwm write that stored asked for
    res,         \* the callback that returned last: arguments and results
    ncalls,      \* callbacks entered so far
    temp,        \* ccp->temp[]
    fan_mode,    \* ccp->fan_mode[]
    ndiscover,   \* connectivity queries (opcode 0x10 or 0x20) made so far
    devq         \* the device: commands it received and has not answered yet

\* The state no statement of the driver writes after ccp_probe.
cold == <<temp, fan_mode, ndiscover>>

vars == <<pc, call, bufp, tx, sent, lock, heap, pwm, fan_enable, lastv, res,
          ncalls, temp, fan_mode, ndiscover, devq>>

ZeroFrame == <<0, 0, 0>>

Unset == [set |-> FALSE, v |-> 0]

Val(v) == [set |-> TRUE, v |-> v]

NoCall == [kind |-> "none", type |-> "none", attr |-> "none", channel |-> 0, val |-> 0]

\* tx: the usb_bulk_msg calls made, their failures, the frame received
\* (reply, status = its byte 0), the command the device answered with it
\* (got), and the per-channel state the callback read on entry (seen).
NoTx == [sends |-> 0, rcvs |-> 0, sendFailed |-> FALSE, rcvFailed |-> FALSE,
         status |-> -1, reply |-> ZeroFrame, got |-> ZeroFrame, seen |-> Unset]

\* res: thread, arguments, the callback's return value (err), the caller's
\* *val (out) or *str (str), the dropped return value of the helper (ret),
\* the bus history.
NoRes == [t |-> 0, call |-> NoCall, err |-> 0, out |-> Unset, str |-> "",
          ret |-> 0, tx |-> NoTx]

Temps == 0..(NumTemp - 1)

Fans == 0..(NumFan - 1)

\* The state ccp_probe leaves: the device struct zeroed by kzalloc, every
\* fan enabled, the lock initialised, no caller inside the driver yet.
Init ==
    /\ pc = [t \in Threads |-> "idle"]
    /\ call = [t \in Threads |-> NoCall]
    /\ bufp = [t \in Threads |-> 0]
    /\ tx = [t \in Threads |-> NoTx]
    /\ sent = [t \in Threads |-> ZeroFrame]
    /\ lock = 0
    /\ heap = [b \in BufIds |-> [used |-> FALSE, b |-> ZeroFrame]]
    /\ pwm = [ch \in Fans |-> 0]
    /\ fan_enable = [ch \in Fans |-> 1]
    /\ lastv = [ch \in Fans |-> Unset]
    /\ res = NoRes
    /\ ncalls = 0
    /\ temp = [ch \in Temps |-> 0]
    /\ fan_mode = [ch \in Fans |-> 0]
    /\ ndiscover = 0
    /\ devq = <<>>

(* ------------------------------- heap --------------------------------- *)

FreeIds(h) == {b \in BufIds : ~h[b].used}

\* A buggy allocator for the exchange buffer: one static block shared by
\* every caller.
kzalloc_shared(h) == 1

\* kzalloc: a block no one else holds (the lowest free one), 0 when out of
\* memory.  The block comes back zeroed.
kzalloc(h) ==
    IF FreeIds(h) = {} THEN 0
    ELSE CHOOSE b \in FreeIds(h) : \A c \in FreeIds(h) : b <= c

Zeroed(h, p) == [h EXCEPT ![p] = [used |-> TRUE, b |-> ZeroFrame]]

kfree(h, p) == [h EXCEPT ![p] = [used |-> FALSE, b |-> ZeroFrame]]

SetByte(h, p, i, v) == [h EXCEPT ![p].b[i + 1] = U8(v)]

Byte(h, p, i) == h[p].b[i + 1]

(* ------------------------ entering and leaving ------------------------ *)

\* Thread t enters a callback with arguments c.
Enter(t, c) ==
    /\ pc[t] = "idle"
    /\ ncalls < MaxCalls
    /\ ncalls' = ncalls + 1

\* Thread t leaves callback c: the caller sees e (the return value) and o
\* (*val); r is the helper's return value, which the callback dropped.
Return(t, c, e, o, r, x) ==
    /\ res' = [t |-> t, call |-> c, err |-> e, out |-> o, str |-> "", ret |-> r,
               tx |-> x]
    /\ UNCHANGED cold
    /\ pc' = [pc EXCEPT ![t] = "idle"]
    /\ call' = [call EXCEPT ![t] = NoCall]
    /\ tx' = [tx EXCEPT ![t] = NoTx]
    /\ sent' = [sent EXCEPT ![t] = ZeroFrame]

\* Thread t starts on the helper of callback c, at statement l; x is what
\* the callback has noted on entry.
Start(t, c, l, x) ==
    /\ pc' = [pc EXCEPT ![t] = l]
    /\ call' = [call EXCEPT ![t] = c]
    /\ tx' = [tx EXCEPT ![t] = x]
    /\ UNCHANGED <<res, sent, cold>>

\* Thread t goes on inside callback c, at statement l.
Goto(t, c, l) ==
    /\ pc' = [pc EXCEPT ![t] = l]
    /\ call' = [call EXCEPT ![t] = c]
    /\ UNCHANGED <<res, tx, sent, cold>>

(* ---------------------------- ccp_read -------------------------------- *)

\* The value the last pwm write on channel ch asked for, when that write has
\* returned and no other pwm write is under way; Unset otherwise.
LastWritten(ch) ==
    IF \E u \in Threads : call[u].kind = "write" THEN Unset ELSE lastv[ch]

\* What ccp_read leaves in err for the pwm attributes: the inner switch has
\* no break after it, so control falls into "default: err = -EINVAL".
PwmReadErr == -EINVAL

\* A ccp_read that asks the device for the rpm of any fan, enabled or not.
FanReadAllowed_always(e) == TRUE

\* if (ccp->fan_enable[channel] == 1) get_temp_or_rpm(...); else return -ENODATA;
FanReadAllowed(e) == e = 1

\* ccp_read up to the call of get_temp_or_rpm, or up to its return.
ccp_read(t, type, attr, channel) ==
    LET c == [kind |-> "read", type |-> type, attr |-> attr,
              channel |-> channel, val |-> 0]
    IN  /\ Enter(t, c)
        /\ CASE type = "hwmon_temp" /\ attr = "hwmon_temp_input" ->
                  Goto(t, c, "gt_kzalloc")
             [] type = "hwmon_fan" /\ attr = "hwmon_fan_input" ->
                  LET x == [NoTx EXCEPT !.seen = Val(fan_enable[channel])]
                  IN  IF FanReadAllowed(fan_enable[channel])
                      THEN Start(t, c, "gt_kzalloc", x)
                      ELSE Return(t, c, -ENODATA, Unset, 0, x)
             [] type = "hwmon_fan" /\ attr = "hwmon_fan_enable" ->
                  Return(t, c, 0, Val(fan_enable[channel]), 0, NoTx)
             [] type = "hwmon_pwm" /\ attr = "hwmon_pwm_input" ->
                  Return(t, c, PwmReadErr, Val(pwm[channel]), 0,
                         [NoTx EXCEPT !.seen = LastWritten(channel)])
             [] type = "hwmon_pwm" /\ attr = "hwmon_pwm_enable" ->
                  Return(t, c, PwmReadErr, Val(1), 0, NoTx)
             [] OTHER ->
                  Return(t, c, -EINVAL, Unset, 0, NoTx)
        /\ UNCHANGED <<bufp, lock, heap, pwm, fan_enable, lastv>>
        /\ UNCHANGED devq

(* -------------------------- ccp_read_string --------------------------- *)

\* The strings of the switch on channel: "Fan1" .. "Fan6".
FanStr(channel) ==
    <<"Fan1", "Fan2", "Fan3", "Fan4", "Fan5", "Fan6">>[channel + 1]

\* ccp_read_string: for a fan a fixed string per channel, -EINVAL for a
\* channel that is none of 0..5 and for any type but fan and temp; for a
\* temperature 0 with *str left as the caller had it.
ccp_read_string(t, type, attr, channel) ==
    LET c == [kind |-> "read_string", type |-> type, attr |-> attr,
              channel |-> channel, val |-> 0]
        ok == type = "hwmon_fan" /\ channel \in Fans
    IN  /\ Enter(t, c)
        /\ res' = [t |-> t, call |-> c,
                   err |-> IF ok \/ type = "hwmon_temp" THEN 0 ELSE -EINVAL,
                   out |-> Unset,
                   str |-> IF ok THEN FanStr(channel) ELSE "",
                   ret |-> 0, tx |-> NoTx]
        /\ UNCHANGED <<pc, call, bufp, tx, sent, lock, heap, pwm, fan_enable,
                       lastv, cold, devq>>

(* -------------------------- get_temp_or_rpm --------------------------- *)

ctlrequest(c) == IF c.type = "hwmon_temp" THEN CTL_GET_TMP ELSE CTL_GET_FAN_RPM

\* Back in ccp_read after get_temp_or_rpm returned r, which is ignored; o is
\* the caller's *val.  For a temperature *val = *val * 10, which reads the
\* caller's uninitialised long when the helper returned before storing to
\* it.  return err; and err is still 0.
rd_ret(t, o, r) ==
    IF call[t].type = "hwmon_temp"
    THEN \E u \in (IF o.set THEN {o.v} ELSE UninitVals) :
           Return(t, call[t], 0, Val(u * 10), r, tx[t])
    ELSE Return(t, call[t], 0, o, r, tx[t])

\* buffer = kzalloc(MAX_BUFFER_SIZE, GFP_KERNEL); if (buffer == 0) return -ENOMEM;
gt_kzalloc(t) ==
    /\ pc[t] = "gt_kzalloc"
    /\ \E p \in {0, kzalloc(heap)} :
         IF p = 0
         THEN /\ rd_ret(t, Unset, -ENOMEM)
              /\ UNCHANGED <<heap, bufp>>
         ELSE /\ heap' = Zeroed(heap, p)
              /\ bufp' = [bufp EXCEPT ![t] = p]
              /\ Goto(t, call[t], "gt_b0")
    /\ UNCHANGED <<lock, pwm, fan_enable, lastv, ncalls>>
    /\ UNCHANGED devq

\* buffer[0] = ctlrequest;
gt_b0(t) ==
    /\ pc[t] = "gt_b0"
    /\ heap' = SetByte(heap, bufp[t], 0, ctlrequest(call[t]))
    /\ Goto(t, call[t], "gt_b1")
    /\ UNCHANGED <<bufp, lock, pwm, fan_enable, lastv, ncalls>>
    /\ UNCHANGED devq

\* buffer[1] = channel;
gt_b1(t) ==
    /\ pc[t] = "gt_b1"
    /\ heap' = SetByte(heap, bufp[t], 1, call[t].channel)
    /\ Goto(t, call[t], "gu_lock")
    /\ UNCHANGED <<bufp, lock, pwm, fan_enable, lastv, ncalls>>
    /\ UNCHANGED devq

(* ---------------------------- get_usb_data ---------------------------- *)

\* The device end of the out pipe: a send that returns 0 has delivered the
\* command frame f, for which the device queues one response frame; a send
\* that returns an error has delivered nothing.
Delivered(q, f) == Append(q, f)

\* A get_usb_data that returns on a failed send without unlocking.
AfterSendFail_return == "gt_decode"

\* if (ret) goto exit;  after the send: exit is the spin_unlock.
AfterSendFail == "gu_exit"

\* spin_lock(&(ccp->lock));
gu_lock(t) ==
    /\ pc[t] = "gu_lock"
    /\ lock = 0
    /\ lock' = t
    /\ Goto(t, call[t], "gu_send")
    /\ UNCHANGED <<bufp, heap, pwm, fan_enable, lastv, ncalls>>
    /\ UNCHANGED devq

\* ret = usb_bulk_msg(udev, usb_sndintpipe(udev, 2), buffer, ...): the call.
gu_send(t) ==
    /\ pc[t] = "gu_send"
    /\ sent' = [sent EXCEPT ![t] = heap[bufp[t]].b]
    /\ tx' = [tx EXCEPT ![t].sends = @ + 1]
    /\ pc' = [pc EXCEPT ![t] = "gu_send_wait"]
    /\ UNCHANGED <<call, bufp, lock, heap, pwm, fan_enable, lastv, res, ncalls, cold>>
    /\ UNCHANGED devq

\* The send returns; if (ret) goto exit; otherwise the receive is called:
\* ret = usb_bulk_msg(udev, usb_rcvintpipe(udev, 1), buffer, ...).
gu_send_ret(t) ==
    /\ pc[t] = "gu_send_wait"
    /\ \E r \in UsbResults :
         IF r # 0
         THEN /\ tx' = [tx EXCEPT ![t].sendFailed = TRUE]
              /\ pc' = [pc EXCEPT ![t] = AfterSendFail]
              /\ devq' = devq
         ELSE /\ tx' = [tx EXCEPT ![t].rcvs = @ + 1]
              /\ pc' = [pc EXCEPT ![t] = "gu_rcv_wait"]
              /\ devq' = Delivered(devq, sent[t])
    /\ UNCHANGED <<call, bufp, sent, lock, heap, pwm, fan_enable, lastv, res, ncalls, cold>>

\* The receive returns: on success the buffer holds the frame the device
\* sent, its answer to the oldest command it has not answered yet.
gu_rcv_ret(t) ==
    /\ pc[t] = "gu_rcv_wait"
    /\ \E r \in (IF devq = <<>> THEN UsbResults \ {0} ELSE UsbResults) :
         IF r # 0
         THEN /\ tx' = [tx EXCEPT ![t].rcvFailed = TRUE]
              /\ UNCHANGED <<heap, devq>>
         ELSE \E f \in Replies :
              /\ heap' = [heap EXCEPT ![bufp[t]].b = f]
              /\ tx' = [tx EXCEPT ![t].status = f[1], ![t].reply = f,
                                  ![t].got = Head(devq)]
              /\ devq' = Tail(devq)
    /\ pc' = [pc EXCEPT ![t] = "gu_exit"]
    /\ UNCHANGED <<call, bufp, sent, lock, pwm, fan_enable, lastv, res, ncalls, cold>>

\* exit: spin_unlock(&(ccp->lock)); return 0;
gu_exit(t) ==
    /\ pc[t] = "gu_exit"
    /\ lock' = 0
    /\ Goto(t, call[t], "gt_decode")
    /\ UNCHANGED <<bufp, heap, pwm, fan_enable, lastv, ncalls>>
    /\ UNCHANGED devq

\* A decoder that takes byte 2 for the high byte.
Decode16_swapped(b1, b2) == Shl8(b2) + b1

\* (buffer[1] << 8) + buffer[2]
Decode16(b1, b2) == Shl8(b1) + b2

\* *val = (buffer[1] << 8) + buffer[2]; kfree(buffer); return ret <= 0 ? ret : -EIO;
\* ret is still the 0 it was initialised to: the result of get_usb_data is
\* dropped, and byte 0 of the buffer is not looked at.
gt_decode(t) ==
    /\ pc[t] = "gt_decode"
    /\ rd_ret(t, Val(Decode16(Byte(heap, bufp[t], 1), Byte(heap, bufp[t], 2))),
              RetOrEIO(0))
    /\ heap' = kfree(heap, bufp[t])
    /\ bufp' = [bufp EXCEPT ![t] = 0]
    /\ UNCHANGED <<lock, pwm, fan_enable, lastv, ncalls>>
    /\ UNCHANGED devq

(* ---------------------------- ccp_write ------------------------------- *)

\* A store that misses the slot by one.
StoreAt_next(arr, channel, val) == [arr EXCEPT ![(channel + 1) % NumFan] = val]

\* ccp->pwm[channel] = val;  ccp->fan_enable[channel] = val;
StoreAt(arr, channel, val) == [arr EXCEPT ![channel] = val]

\* set_pwm's only check on val: if (val > 255) return -EINVAL;
PwmRejected(val) == val > 255

\* What set_pwm stores in ccp->pwm[channel]: the local val after conversion.
PwmStored(val) == Convert(val)

WriteVals(attr) == IF attr = "hwmon_pwm_input" THEN PwmValIn ELSE EnableValIn

\* ccp_write; for pwmN also the head of set_pwm up to the store
\* ccp->pwm[channel] = val.  The result of set_pwm is dropped: ccp_write
\* returns its own err, still 0.
ccp_write(t, type, attr, channel, val) ==
    LET c == [kind |-> "write", type |-> type, attr |-> attr,
              channel |-> channel, val |-> val]
    IN  /\ Enter(t, c)
        /\ CASE type = "hwmon_fan" /\ attr = "hwmon_fan_enable" ->
                  /\ fan_enable' = StoreAt(fan_enable, channel, val)
                  /\ Return(t, c, 0, Unset, 0, NoTx)
                  /\ UNCHANGED <<pwm, lastv>>
             [] type = "hwmon_pwm" /\ attr = "hwmon_pwm_input" ->
                  /\ IF PwmRejected(val)
                     THEN /\ Return(t, c, 0, Unset, -EINVAL, NoTx)
                          /\ UNCHANGED <<pwm, lastv>>
                     ELSE /\ pwm' = StoreAt(pwm, channel, PwmStored(val))
                          /\ lastv' = [lastv EXCEPT ![channel] = Val(val)]
                          /\ Goto(t, c, "sp_kzalloc")
                  /\ UNCHANGED fan_enable
             [] OTHER ->
                  /\ Return(t, c, -EINVAL, Unset, 0, NoTx)
                  /\ UNCHANGED <<pwm, lastv, fan_enable>>
        /\ UNCHANGED <<bufp, lock, heap>>
        /\ UNCHANGED devq

(* ------------------------------ set_pwm ------------------------------- *)

\* buffer = kzalloc(OUT_BUFFER_SIZE, GFP_KERNEL); if (buffer == 0) return -ENOMEM;
sp_kzalloc(t) ==
    /\ pc[t] = "sp_kzalloc"
    /\ \E p \in {0, kzalloc(heap)} :
         IF p = 0
         THEN /\ Return(t, call[t], 0, Unset, -ENOMEM, tx[t])
              /\ UNCHANGED <<heap, bufp>>
         ELSE /\ heap' = Zeroed(heap, p)
              /\ bufp' = [bufp EXCEPT ![t] = p]
              /\ Goto(t, call[t], "sp_b0")
    /\ UNCHANGED <<lock, pwm, fan_enable, lastv, ncalls>>
    /\ UNCHANGED devq

\* buffer[0] = CTL_SET_FAN_FPWM;
sp_b0(t) ==
    /\ pc[t] = "sp_b0"
    /\ heap' = SetByte(heap, bufp[t], 0, CTL_SET_FAN_FPWM)
    /\ Goto(t, call[t], "sp_b1")
    /\ UNCHANGED <<bufp, lock, pwm, fan_enable, lastv, ncalls>>
    /\ UNCHANGED devq

\* buffer[1] = channel;
sp_b1(t) ==
    /\ pc[t] = "sp_b1"
    /\ heap' = SetByte(heap, bufp[t], 1, call[t].channel)
    /\ Goto(t, call[t], "sp_b2")
    /\ UNCHANGED <<bufp, lock, pwm, fan_enable, lastv, ncalls>>
    /\ UNCHANGED devq

\* buffer[2] = val;  val is the local, converted value.
sp_b2(t) ==
    /\ pc[t] = "sp_b2"
    /\ heap' = SetByte(heap, bufp[t], 2, Convert(call[t].val))
    /\ Goto(t, call[t], "sp_send")
    /\ UNCHANGED <<bufp, lock, pwm, fan_enable, lastv, ncalls>>
    /\ UNCHANGED devq

\* ret = usb_bulk_msg(udev, usb_sndintpipe(udev, 2), buffer, ...): the call,
\* made without taking ccp->lock.
sp_send(t) ==
    /\ pc[t] = "sp_send"
    /\ sent' = [sent EXCEPT ![t] = heap[bufp[t]].b]
    /\ tx' = [tx EXCEPT ![t].sends = @ + 1]
    /\ pc' = [pc EXCEPT ![t] = "sp_send_wait"]
    /\ UNCHANGED <<call, bufp, lock, heap, pwm, fan_enable, lastv, res, ncalls, cold>>
    /\ UNCHANGED devq

\* The send returns.  if (ret) goto exit: kfree(buffer), return the error;
\* otherwise return 0 with the buffer still allocated.  No receive follows.
sp_send_ret(t) ==
    /\ pc[t] = "sp_send_wait"
    /\ \E r \in UsbResults :
         IF r # 0
         THEN /\ Return(t, call[t], 0, Unset, RetOrEIO(r),
                        [tx[t] EXCEPT !.sendFailed = TRUE])
              /\ heap' = kfree(heap, bufp[t])
              /\ devq' = devq
         ELSE /\ Return(t, call[t], 0, Unset, 0, tx[t])
              /\ heap' = heap
              /\ devq' = Delivered(devq, sent[t])
    /\ bufp' = [bufp EXCEPT ![t] = 0]
    /\ UNCHANGED <<lock, pwm, fan_enable, lastv, ncalls>>

(* --------------------------- specification ---------------------------- *)

Next ==
    \/ \E t \in Threads : \E a \in ReadAttrs : \E ch \in ChannelsOf(a[1]) :
         ccp_read(t, a[1], a[2], ch)
    \/ \E t \in Threads : \E a \in StringAttrs : \E ch \in ChannelsOf(a[1]) :
         ccp_read_string(t, a[1], a[2], ch)
    \/ \E t \in Threads : \E a \in WriteAttrs : \E ch \in ChannelsOf(a[1]) :
         \E v \in WriteVals(a[2]) : ccp_write(t, a[1], a[2], ch, v)
    \/ \E t \in Threads : gt_kzalloc(t)
    \/ \E t \in Threads : gt_b0(t)
    \/ \E t \in Threads : gt_b1(t)
    \/ \E t \in Threads : gu_lock(t)
    \/ \E t \in Threads : gu_send(t)
    \/ \E t \in Threads : gu_send_ret(t)
    \/ \E t \in Threads : gu_rcv_ret(t)
    \/ \E t \in Threads : gu_exit(t)
    \/ \E t \in Threads : gt_decode(t)
    \/ \E t \in Threads : sp_kzalloc(t)
    \/ \E t \in Threads : sp_b0(t)
    \/ \E t \in Threads : sp_b1(t)
    \/ \E t \in Threads : sp_b2(t)
    \/ \E t \in Threads : sp_send(t)
    \/ \E t \in Threads : sp_send_ret(t)

Spec == Init /\ [][Next]_vars

\* Temperature reads with the channel argument running one past the
\* registered channels: ccp_read as a function of any index it is handed.
TempChanWide == 0..NumTemp

NextRange ==
    \/ \E t \in Threads : \E ch \in TempChanWide :
         ccp_read(t, "hwmon_temp", "hwmon_temp_input", ch)
    \/ \E t \in Threads : gt_kzalloc(t)
    \/ \E t \in Threads : gt_b0(t)
    \/ \E t \in Threads : gt_b1(t)
    \/ \E t \in Threads : gu_lock(t)
    \/ \E t \in Threads : gu_send(t)
    \/ \E t \in Threads : gu_send_ret(t)
    \/ \E t \in Threads : gu_rcv_ret(t)
    \/ \E t \in Threads : gu_exit(t)
    \/ \E t \in Threads : gt_decode(t)

SpecRange == Init /\ [][NextRange]_vars


(* ------------------------------ claims -------------------------------- *)

\* Thread t is inside a usb_bulk_msg call.
InTransport(t) == pc[t] \in {"gu_send_wait", "gu_rcv_wait", "sp_send_wait"}

\* Thread t is between spin_lock and spin_unlock of get_usb_data.
InGuarded(t) == pc[t] \in {"gu_send", "gu_send_wait", "gu_rcv_wait", "gu_exit"}

\* C1: every send or receive on the bulk transport is made by a caller that
\* holds the channel lock, so at most one is in flight at any time; this
\* includes the send of set_fan_power.
C1_TransportUnderLock ==
    /\ \A t \in Threads : InTransport(t) => lock = t
    /\ Cardinality({t \in Threads : InTransport(t)}) <= 1

\* The command frame the arguments c of a callback ask for.
Frame(c) ==
    IF c.kind = "write"
    THEN <<CTL_SET_FAN_FPWM, c.channel, U8(Convert(c.val))>>
    ELSE IF c.type = "hwmon_temp"
         THEN <<CTL_GET_TMP, c.channel, 0>>
         ELSE <<CTL_GET_FAN_RPM, c.channel, 0>>

\* C2: with callers running concurrently, every command frame handed to the
\* transport is the frame of the one call that built it: opcode, channel and
\* (for 0x23) converted percent all belong to the sender's own call.
C2_FrameSelfConsistent ==
    \A t \in Threads : tx[t].sends > 0 => sent[t] = Frame(call[t])

\* C2 witness: two callers are inside a send at the same time, one in
\* set_pwm and one in get_usb_data, with different frames.
C2_Witness ==
    \E t, u \in Threads :
        /\ pc[t] = "sp_send_wait"
        /\ pc[u] = "gu_send_wait"
        /\ sent[t] # sent[u]

\* C3: the channel lock is released on every exit path of a transaction:
\* whoever holds the lock is inside the guarded section of get_usb_data, so
\* when no transaction is in progress the lock is free.
C3_LockReleased ==
    /\ lock # 0 => lock \in Threads /\ InGuarded(lock)
    /\ (\A t \in Threads : ~InGuarded(t)) => lock = 0

\* C3 witness: a transaction whose send failed has returned, and a later
\* caller holds the lock.
C3_Witness ==
    /\ res.call.kind = "read"
    /\ res.tx.sendFailed
    /\ lock # 0
    /\ lock # res.t

\* C4: in a transaction a receive is attempted after the send also when the
\* send failed: no transaction ends with a send attempted and no receive.
C4_ReceiveAfterSend ==
    (res.call.kind = "read" /\ res.tx.sends > 0) => res.tx.rcvs = res.tx.sends

\* C5: when the send or the receive of a transaction fails, the facade
\* operation (called with valid arguments) returns an error to its caller
\* and no value.
C5_FailureSurfaced ==
    ( /\ res.tx.sendFailed \/ res.tx.rcvFailed
      /\ res.call.kind = "write" => res.call.val \in 0..255 )
    => (res.err < 0 /\ ~res.out.set)

\* C6: when byte 0 of the response is nonzero, the read returns an error and
\* no value derived from the payload.
C6_StatusChecked ==
    (res.call.kind = "read" /\ res.tx.status > 0) => (res.err < 0 /\ ~res.out.set)

\* C7: set_fan_power(i, v) with v in 0..255 followed by read_fan_power(i)
\* returns v exactly, whatever the transport did with the write.
C7_RoundTrip ==
    ( /\ res.call.kind = "read"
      /\ res.call.attr = "hwmon_pwm_input"
      /\ res.tx.seen.set
      /\ res.tx.seen.v \in 0..255 )
    => res.out = Val(res.tx.seen.v)

\* C8: read_fan_power on a valid fan channel succeeds: it returns a value
\* with a success result and makes no transport call.
C8_ReadPowerSucceeds ==
    (res.call.kind = "read" /\ res.call.attr = "hwmon_pwm_input")
    => (res.err = 0 /\ res.out.set /\ res.tx.sends = 0 /\ res.tx.rcvs = 0)

\* round(v * 100 / 255), to nearest (no v in 0..255 falls on a half).
Round(v) == (200 * v + 255) \div 510

\* C9: for v in 0..255 the percentage byte set_fan_power sends as param2 is
\* round(v * 100 / 255) and lies in 0..100.
C9_RoundToNearest ==
    \A t \in Threads :
        (pc[t] = "sp_send_wait" /\ call[t].val \in 0..255)
        => (sent[t][3] = Round(call[t].val) /\ sent[t][3] \in 0..100)

\* C10: set_fan_power with a value above 255 or below 0 returns
\* InvalidArgument to the caller, sends nothing and stores nothing.
C10_OutOfRangeRejected ==
    /\ ( /\ res.call.kind = "write"
         /\ res.call.attr = "hwmon_pwm_input"
         /\ res.call.val \notin 0..255 )
       => (res.err = -EINVAL /\ res.tx.sends = 0)
    /\ \A t \in Threads : call[t].kind = "write" => call[t].val \in 0..255


\* C11: a call with a channel index outside the declared count returns an
\* input-validation error, and no command frame carrying that index is sent.
C11_ChannelValidated ==
    /\ \A t \in Threads :
         (call[t].type = "hwmon_temp" /\ call[t].channel \notin 0..(NumTemp - 1))
         => tx[t].sends = 0
    /\ (res.call.type = "hwmon_temp" /\ res.call.channel \notin 0..(NumTemp - 1))
       => (res.err = -EINVAL /\ res.tx.sends = 0)


\* C12: read_fan_rpm on a fan whose enable state is not 1 returns NoData
\* and makes no transport call; a 0x21 transaction is under way only for a
\* fan that was enabled when the call came in.
C12_DisabledFanNoData ==
    /\ (res.call.attr = "hwmon_fan_input" /\ res.tx.seen # Val(1))
       => (res.err = -ENODATA /\ res.tx.sends = 0 /\ res.tx.rcvs = 0)
    /\ \A t \in Threads : call[t].attr = "hwmon_fan_input" => tx[t].seen = Val(1)

\* C12 witness: a fan was disabled, and the rpm read that followed returned
\* NoData.
C12_Witness ==
    /\ res.call.attr = "hwmon_fan_input"
    /\ res.tx.seen = Val(0)
    /\ res.err = -ENODATA

\* The presence flag of temperature channel ch, as far as struct ccp_device
\* holds one: the slot of ccp->temp[].
TempPresent(ch) == temp[ch] # 0

\* C13: read_temperature on a channel whose presence flag is false returns
\* NoData and makes no transport call.
C13_AbsentTempNoData ==
    ( /\ res.call.attr = "hwmon_temp_input"
      /\ res.call.channel \in Temps
      /\ ~TempPresent(res.call.channel) )
    => (res.err = -ENODATA /\ res.tx.sends = 0)

\* A temperature read whose exchange succeeded: sent, received, status 0.
TempExchanged ==
    /\ res.call.attr = "hwmon_temp_input"
    /\ res.tx.rcvs = 1
    /\ ~res.tx.rcvFailed
    /\ res.tx.status = 0

\* C14: after a successful exchange read_temperature returns exactly
\* 10 * (256 * response byte 1 + response byte 2).
C14_TempScaled ==
    TempExchanged
    => (res.err = 0 /\ res.out = Val(10 * (256 * res.tx.reply[2] + res.tx.reply[3])))

\* C14 witness: a temperature read got a frame with both payload bytes
\* nonzero and returned.
C14_Witness ==
    /\ TempExchanged
    /\ res.tx.reply[2] > 0
    /\ res.tx.reply[3] > 0
    /\ res.out.set

\* C15: set_fan_enable accepts only 0 and 1 and returns InvalidArgument for
\* any other value; every fan's enable state is 0 or 1.
C15_EnableBoolean ==
    /\ \A ch \in Fans : fan_enable[ch] \in {0, 1}
    /\ ( /\ res.call.kind = "write"
         /\ res.call.attr = "hwmon_fan_enable"
         /\ res.call.val \notin {0, 1} )
       => res.err = -EINVAL

\* C16: discovery has run, once, before any facade callback runs on the
\* handle.
C16_DiscoveredBeforeUse == ncalls > 0 => ndiscover = 1

\* The labels the claim allows for fan channel i, one per connector code.
ClaimedLabels(i) ==
    LET n == <<"fan1", "fan2", "fan3", "fan4", "fan5", "fan6">>[i + 1]
    IN  {n \o " nc", n \o " 3pin", n \o " 4pin", n \o " other", "other"}

\* C17: the label get_fan_label returns for fan channel i is the one derived
\* from the discovery byte of that channel: "fan<i+1> nc", "fan<i+1> 3pin",
\* "fan<i+1> 4pin" or "other".
C17_LabelFromDiscovery ==
    ( /\ res.call.kind = "read_string"
      /\ res.call.type = "hwmon_fan"
      /\ res.call.channel \in Fans )
    => (res.err = 0 /\ res.str \in ClaimedLabels(res.call.channel))

\* C18: the frame a read decodes is the device's answer to the command that
\* read sent, and no answer stays unread in the device when no operation is
\* in progress.
C18_ReplyPaired ==
    /\ (res.call.kind = "read" /\ res.tx.rcvs > 0 /\ ~res.tx.rcvFailed)
       => res.tx.got = Frame(res.call)
    /\ (\A t \in Threads : pc[t] = "idle") => devq = <<>>

\* C19: a step changes ccp->pwm[] only as the store of a set_fan_power call,
\* and then only the slot of that call's channel; it changes
\* ccp->fan_enable[] only as a set_fan_enable call, and then only the slot
\* of that call's channel; no read changes either.
C19_FrameEffect ==
    [][ /\ pwm' # pwm =>
            \E t \in Threads :
                /\ pc[t] = "idle"
                /\ pc'[t] = "sp_kzalloc"
                /\ call'[t].attr = "hwmon_pwm_input"
                /\ \A ch \in Fans \ {call'[t].channel} : pwm'[ch] = pwm[ch]
                /\ fan_enable' = fan_enable
        /\ fan_enable' # fan_enable =>
                /\ ncalls' = ncalls + 1
                /\ res'.call.kind = "write"
                /\ res'.call.attr = "hwmon_fan_enable"
                /\ \A ch \in Fans \ {res'.call.channel} :
                       fan_enable'[ch] = fan_enable[ch]
                /\ pwm' = pwm
      ]_vars

\* C19 witness: a fan's power was set, a read followed, and only that fan's
\* slot differs from what ccp_probe left.
C19_Witness ==
    /\ res.call.kind = "read"
    /\ pwm[NumFan - 1] # 0
    /\ \A ch \in Fans \ {NumFan - 1} : pwm[ch] = 0
    /\ \A ch \in Fans : fan_enable[ch] = 1

\* C20: when no operation is in progress, every buffer a facade operation
\* allocated has been freed.
C20_BuffersFreed ==
    (\A t \in Threads : pc[t] = "idle") => \A b \in BufIds : ~heap[b].used

====
